---- MODULE Spec2Model ----
(***************************************************************************)
(* Clip allocation of the survey application (streamlit_app.py):           *)
(* get_all_audio_files scans the audio folder and removes speed            *)
(* duplicates, get_participant_audio_clips draws a balanced random          *)
(* selection from the general pool and from one language bucket.           *)
(*                                                                         *)
(* Spec         one call of get_participant_audio_clips, step by step      *)
(* SpecPool     one pool drawn for any target count                        *)
(* SpecSurvey   the pages of one session: form, clip pages, completion,    *)
(*              with save_response and its three backends                  *)
(* SpecTwoCalls two calls of get_participant_audio_clips interleaved       *)
(* SpecTwoSessions two browser sessions sharing the storage               *)
(*                                                                         *)
(* A file name is a sequence of tokens, e.g.                                *)
(*   <<"news_clip_", "2", "_spedup", ".mp3">>  for news_clip_2_spedup.mp3  *)
(* so that basename, splitext, endswith, startswith and lower are          *)
(* computed on the name rather than assumed.  A path is a record           *)
(* [dir |-> <<"audio">> or <<"audio", d>>, name |-> file name].            *)
(***************************************************************************)
EXTENDS Integers, Sequences, FiniteSets, TLC

(* ------------------------------ bounds -------------------------------- *)

\* news_real_1 .. news_real_MaxReal may exist in the audio folder
MaxReal == 3

\* at most this many files in the whole audio tree
MaxFiles == 4

(* ------------------------- program constants -------------------------- *)

N_RANDOM_CLIPS == 4

M_LANGUAGE_CLIPS == 2

AudioExtensions == {".mp3", ".wav", ".m4a", ".ogg"}

Sentinels == {"Select a language", "None / Not applicable"}

\* Python's None
None == "<None>"

(* --------------------------- string helpers --------------------------- *)

\* str.lower() on the tokens and language names that occur in the model
Lower(s) ==
    CASE s = "NEWS_REAL_" -> "news_real_"
      [] s = "News_Clip_" -> "news_clip_"
      [] s = ".MP3" -> ".mp3"
      [] s = ".WAV" -> ".wav"
      [] s = "Tamil" -> "tamil"
      [] s = "TAMIL" -> "tamil"
      [] s = "Hindi" -> "hindi"
      [] s = "Malayalam" -> "malayalam"
      [] s = "French" -> "french"
      [] s = "Select a language" -> "select a language"
      [] s = "None / Not applicable" -> "none / not applicable"
      [] OTHER -> s

LowerName(name) == [i \in DOMAIN name |-> Lower(name[i])]

\* name.startswith(tok) / name.endswith(tok) for a whole token
StartsWith(name, tok) == Len(name) > 0 /\ name[1] = tok

EndsWith(name, tok) == Len(name) > 0 /\ name[Len(name)] = tok

\* the extension tokens: the only tokens that contain a dot
ExtTokens == {".mp3", ".MP3", ".wav", ".WAV", ".m4a", ".ogg", ".txt"}

\* os.path.splitext
SplitExt(name) ==
    IF Len(name) > 0 /\ name[Len(name)] \in ExtTokens
    THEN <<SubSeq(name, 1, Len(name) - 1), name[Len(name)]>>
    ELSE <<name, "">>

\* os.path.join(folder, file) and os.path.basename(path)
Join(dir, name) == [dir |-> dir, name |-> name]

Basename(path) == path.name

\* truthiness of an optional string
Truthy(s) == s # None /\ s # ""

Min(a, b) == IF a <= b THEN a ELSE b

RECURSIVE SetToSeq(_)
\* one enumeration of a set (os.listdir order is arbitrary; every list that
\* depends on it is shuffled before it is used)
SetToSeq(S) ==
    IF S = {} THEN <<>>
    ELSE LET x == CHOOSE y \in S : TRUE IN <<x>> \o SetToSeq(S \ {x})

Range(seq) == {seq[i] : i \in DOMAIN seq}

SelectSeqBy(seq, keep) ==
    LET F[i \in 0..Len(seq)] ==
          IF i = 0 THEN <<>>
          ELSE IF seq[i] \in keep THEN Append(F[i - 1], seq[i]) ELSE F[i - 1]
    IN F[Len(seq)]

RECURSIVE Perms(_)
\* random.shuffle: every ordering of the elements
Perms(S) ==
    IF S = {} THEN {<<>>}
    ELSE UNION {{<<x>> \o p : p \in Perms(S \ {x})} : x \in S}

Shuffles(list) == Perms(Range(list))

(* ------------------------------ file names ---------------------------- *)

AudioDir == <<"audio">>

NewsClip(i) == <<"news_clip_", i, ".mp3">>

NewsClipSpedup(i) == <<"news_clip_", i, "_spedup", ".mp3">>

NewsReal(i) == <<"news_real_", i, ".mp3">>

\* names that may occur at the root of the audio folder
RootNames ==
    {NewsClip("1"), NewsClip("2"), NewsClipSpedup("2")}
    \cup {NewsReal(ToString(i)) : i \in 1..MaxReal}
    \cup {<<"intro", ".WAV">>}

\* names that may occur in the subfolder "Tamil"
TamilNames ==
    {NewsClip("1"), <<"NEWS_REAL_", "1", ".MP3">>, <<"song", ".ogg">>, <<"notes", ".txt">>}

\* names that may occur in the subfolder "hindi"
HindiNames == {NewsReal("1")}

DirNames == {"Tamil", "hindi"}

DirUniverse(d) == IF d = "Tamil" THEN TamilNames ELSE HindiNames

\* the news_real files of a folder are numbered 1..k without a gap
RealPrefixClosed(names) ==
    \A i \in 2..MaxReal :
        NewsReal(ToString(i)) \in names => NewsReal(ToString(i - 1)) \in names

FileCount(f) ==
    Cardinality(f.root)
    + (IF "Tamil" \in DOMAIN f.dirs THEN Cardinality(f.dirs["Tamil"]) ELSE 0)
    + (IF "hindi" \in DOMAIN f.dirs THEN Cardinality(f.dirs["hindi"]) ELSE 0)

\* the general pool of the concrete scenario: six files, no subfolder
ScenarioFS ==
    [exists |-> TRUE,
     root |-> {NewsClip("1"), NewsClip("2"), NewsClipSpedup("2"),
               NewsReal("1"), NewsReal("2"), NewsReal("3")},
     dirs |-> <<>>]

\* the audio tree: exists = the folder "audio" exists, root = the files in it,
\* dirs = its subfolders with the files of each
FileSystems ==
    {[exists |-> FALSE, root |-> {}, dirs |-> <<>>], ScenarioFS}
    \cup
    {f \in UNION {[exists : {TRUE},
                   root : {r \in SUBSET RootNames : RealPrefixClosed(r)},
                   dirs : [D -> SUBSET TamilNames \cup SUBSET HindiNames]]
                  : D \in SUBSET DirNames} :
        /\ \A d \in DOMAIN f.dirs : f.dirs[d] # {} /\ f.dirs[d] \subseteq DirUniverse(d)
        /\ FileCount(f) <= MaxFiles}

MotherTongues == {None, "TAMIL", "hindi"}

Competences == {None, "Select a language", "None / Not applicable", "Tamil", "Malayalam"}

(* ------------------------- the catalogue scan ------------------------- *)

\* mutant: the _spedup suffix is not removed
BaseNameKeepSuffix(file_path) == SplitExt(Basename(file_path))[1]

\* filter_speed_duplicates: the base name of a file
BaseName(file_path) ==
    LET filename == Basename(file_path)
        name_without_ext == SplitExt(filename)[1]
    IN IF EndsWith(name_without_ext, "_spedup")
       THEN SubSeq(name_without_ext, 1, Len(name_without_ext) - 1)
       ELSE name_without_ext

\* mutant: a base name is entered again for every file that has it
GroupKeysAll(file_list) == [i \in DOMAIN file_list |-> BaseName(file_list[i])]

\* filter_speed_duplicates: the base names in order of first occurrence
GroupKeys(file_list) ==
    LET F[i \in 0..Len(file_list)] ==
          IF i = 0 THEN <<>>
          ELSE IF BaseName(file_list[i]) \in Range(F[i - 1])
               THEN F[i - 1]
               ELSE Append(F[i - 1], BaseName(file_list[i]))
    IN F[Len(file_list)]

\* filter_speed_duplicates: file_groups[base_name]
Versions(file_list, base_name) ==
    {file_list[i] : i \in {j \in DOMAIN file_list : BaseName(file_list[j]) = base_name}}

RECURSIVE ChooseEach(_, _)
ChooseEach(file_list, keys) ==
    IF keys = <<>> THEN {<<>>}
    ELSE {<<v>> \o rest : v \in Versions(file_list, Head(keys)),
                          rest \in ChooseEach(file_list, Tail(keys))}

\* filter_speed_duplicates: every list random.choice can produce
filter_speed_duplicates(file_list) == ChooseEach(file_list, GroupKeys(file_list))

\* the extension test of get_all_audio_files
IsAudio(file) == \E ext \in AudioExtensions : EndsWith(LowerName(file), ext)

\* os.listdir(folder), files only, joined with the folder
AudioFilesIn(dir, names) ==
    SetToSeq({Join(dir, file) : file \in {n \in names : IsAudio(n)}})

RECURSIVE ScanLanguages(_, _)
\* the subfolder loop of get_all_audio_files: item.lower() is the key, a
\* later subfolder with the same key replaces an earlier one
ScanLanguages(f, items) ==
    IF items = <<>> THEN {<<>>}
    ELSE LET item == items[Len(items)]
             front == SubSeq(items, 1, Len(items) - 1)
             language_files == AudioFilesIn(Append(AudioDir, item), f.dirs[item])
         IN IF language_files = <<>>
            THEN ScanLanguages(f, front)
            ELSE {(Lower(item) :> sel) @@ m :
                      sel \in filter_speed_duplicates(language_files),
                      m \in ScanLanguages(f, front)}

\* mutant: the folder is scanned without the existence test
FolderExistsUnchecked(f) == TRUE

\* os.path.exists(audio_folder)
FolderExists(f) == f.exists

EmptyCatalogue == [general |-> <<>>, language_specific |-> <<>>]

\* get_all_audio_files: every outcome of the scan; os.listdir of a folder
\* that does not exist raises FileNotFoundError
get_all_audio_files(f) ==
    IF ~FolderExists(f)
    THEN {[error |-> "none", files |-> EmptyCatalogue]}
    ELSE IF ~f.exists
    THEN {[error |-> "FileNotFoundError", files |-> EmptyCatalogue]}
    ELSE {[error |-> "none", files |-> [general |-> g, language_specific |-> ls]] :
              g \in filter_speed_duplicates(AudioFilesIn(AudioDir, f.root)),
              ls \in ScanLanguages(f, SetToSeq(DOMAIN f.dirs))}

(* --------------------- get_participant_audio_clips -------------------- *)

VARIABLES
    fs,                   \* the audio tree on disk
    mother_tongue,        \* argument
    language_competence,  \* argument
    pc,                   \* position in get_participant_audio_clips
    error,                \* the exception raised, "none" if none
    all_files,
    news_clip_pool,
    news_real_pool,
    other_general_pool,
    other_lang_pool,
    clip_quota,
    real_quota,
    clip_selected_count,
    real_selected_count,
    remaining_slots,
    selected_general,
    selected_language,
    target_language,
    selected_clips,       \* the returned dict, in insertion order
    clip_counter,
    pool_target,          \* the target count of a pool drawn on its own
    suspended,            \* the locals of the call that is not running
    survey_step,          \* st.session_state.survey_step
    current_clip,         \* st.session_state.current_clip
    current_responses,    \* st.session_state.current_responses
    participant_audio_clips,  \* st.session_state.participant_audio_clips
    responses,            \* st.session_state.responses
    firebase_service,     \* "missing" (None), "unavailable" or "available"
    sheets_configured,    \* the spreadsheet credentials are real
    firestore,            \* the documents of the survey_responses collection
    sheet,                \* the rows of the spreadsheet
    data_file,            \* survey_responses.pkl: whether it exists, and its content
    handed,               \* the records handed to save_response, in call order
    participants,         \* the number of participant ids generated
    saves,                \* per call of save_response: the writes it attempted, its result
    saved_indices,        \* the clip indices the participant has saved so far
    other_session         \* the session state of a second browser session

\* the locals and arguments of one call of get_participant_audio_clips
call_vars == <<mother_tongue, language_competence, pc, error, all_files,
               news_clip_pool, news_real_pool, other_general_pool, other_lang_pool,
               clip_quota, real_quota, clip_selected_count, real_selected_count,
               remaining_slots, selected_general, selected_language, target_language,
               selected_clips, clip_counter>>

session_vars == <<survey_step, current_clip, current_responses,
                  participant_audio_clips, responses, saved_indices>>

storage_vars == <<firebase_service, sheets_configured, firestore, sheet, data_file>>

\* what no step of get_participant_audio_clips touches
outer_vars == <<pool_target, suspended, session_vars, storage_vars, handed, participants,
                saves, other_session>>

vars == <<fs, call_vars, outer_vars>>

IsNewsClip(f) == StartsWith(LowerName(Basename(f)), "news_clip_")

IsNewsReal(f) == StartsWith(LowerName(Basename(f)), "news_real_")

NewsClipPool(files) == SelectSeqBy(files, {f \in Range(files) : IsNewsClip(f)})

NewsRealPool(files) == SelectSeqBy(files, {f \in Range(files) : IsNewsReal(f)})

OtherPool(files) ==
    LET categorized_files == Range(NewsClipPool(files) \o NewsRealPool(files))
    IN SelectSeqBy(files, Range(files) \ categorized_files)

\* mutant: the pool size is not capped by the target
NClipsNoCap(target, files) == Len(files)

\* n_clips = min(N_RANDOM_CLIPS, len(general_files)), m_clips likewise
NClips(target, files) == Min(target, Len(files))

\* mutant: the whole count goes to news_real
QuotasUnsplit(n, clip_len, real_len) == <<0, n>>

\* mutant: the quotas are never swapped
QuotasNoSwap(n, clip_len, real_len) == <<n \div 2, n - (n \div 2)>>

\* <<clip_quota, real_quota>>
Quotas(n, clip_len, real_len) ==
    LET cq == n \div 2
        rq == n - cq
    IN IF n % 2 = 1 /\ clip_len > real_len THEN <<rq, cq>> ELSE <<cq, rq>>

\* mutant: the quota is taken without regard to the pool size
TakeQuota(quota, pool) == quota

\* mutant: one file fewer than allowed is taken
TakeOneLess(quota, pool) ==
    IF Min(quota, Len(pool)) > 0 THEN Min(quota, Len(pool)) - 1 ELSE 0

\* clip_take = min(clip_quota, len(news_clip_pool)), real_take likewise
Take(quota, pool) == Min(quota, Len(pool))

\* the elements k calls of pool.pop() return, in that order
Popped(pool, k) == [i \in 1..k |-> pool[Len(pool) + 1 - i]]

Remaining(pool, k) == SubSeq(pool, 1, Len(pool) - k)

\* partition, shuffle, quotas and the two quota draws of one pool: every
\* outcome of the three shuffles
DrawOutcomes(files, target) ==
    LET n == NClips(target, files)
    IN {LET q == Quotas(n, Len(cp), Len(rp))
            clip_take == Take(q[1], cp)
            real_take == Take(q[2], rp)
            ok == clip_take <= Len(cp) /\ real_take <= Len(rp)
            ct == Min(clip_take, Len(cp))
            rt == Min(real_take, Len(rp))
        IN [n |-> n,
            clip_quota |-> q[1],
            real_quota |-> q[2],
            news_clip_pool |-> Remaining(cp, ct),
            news_real_pool |-> Remaining(rp, rt),
            other_pool |-> op,
            selected |-> Popped(cp, ct) \o Popped(rp, rt),
            clip_selected_count |-> ct,
            real_selected_count |-> rt,
            remaining_slots |-> n - (ct + rt),
            error |-> IF ok THEN "none" ELSE "IndexError"]
        : cp \in Shuffles(NewsClipPool(files)),
          rp \in Shuffles(NewsRealPool(files)),
          op \in Shuffles(OtherPool(files))}

\* mutant: the other category is never used
TopUpBranchNoOther(cp, rp, op, cc, rc) ==
    IF cp # <<>> /\ (cc <= rc \/ rp = <<>>) THEN "clip"
    ELSE IF rp # <<>> THEN "real"
    ELSE "break"

\* mutant: the other category is tried first
TopUpBranchOtherFirst(cp, rp, op, cc, rc) ==
    IF op # <<>> THEN "other"
    ELSE IF cp # <<>> /\ (cc <= rc \/ rp = <<>>) THEN "clip"
    ELSE IF rp # <<>> THEN "real"
    ELSE "break"

\* the branch one iteration of the top-up loop takes
TopUpBranch(cp, rp, op, cc, rc) ==
    IF cp # <<>> /\ (cc <= rc \/ rp = <<>>) THEN "clip"
    ELSE IF rp # <<>> THEN "real"
    ELSE IF op # <<>> THEN "other"
    ELSE "break"

\* create_audio_clip_dict (the question list is the same for every clip)
create_audio_clip_dict(file_path, clip_number) ==
    [file |-> file_path,
     file_name |-> Basename(file_path),
     title |-> <<"Audio Clip ", clip_number>>]

\* d[key] = value on a dict kept in insertion order
DictSet(d, key, value) ==
    IF \E i \in DOMAIN d : d[i].key = key
    THEN [i \in DOMAIN d |-> IF d[i].key = key THEN [key |-> key, value |-> value] ELSE d[i]]
    ELSE Append(d, [key |-> key, value |-> value])

\* mutant: the identifiers start at clip_0
ClipIdZeroBased(counter) == <<"clip_", counter - 1>>

\* clip_id = f"clip_{clip_counter}"
ClipId(counter) == <<"clip_", counter>>

RECURSIVE AddClipsSameCounter(_, _, _)
\* mutant: clip_counter is not incremented
AddClipsSameCounter(d, files, counter) ==
    IF files = <<>> THEN d
    ELSE AddClipsSameCounter(
             DictSet(d, ClipId(counter), create_audio_clip_dict(Head(files), counter)),
             Tail(files), counter)

RECURSIVE AddClips(_, _, _)
\* the numbering loop: one dict entry per selected file
AddClips(d, files, counter) ==
    IF files = <<>> THEN d
    ELSE AddClips(DictSet(d, ClipId(counter), create_audio_clip_dict(Head(files), counter)),
                  Tail(files), counter + 1)

\* mutant: the competence "Malayalam" is treated as a sentinel
TargetLanguageMalayalamSentinel(mt, lc) ==
    IF Truthy(lc) /\ lc \notin Sentinels \cup {"Malayalam"} THEN lc
    ELSE IF Truthy(mt) THEN mt
    ELSE None

\* mutant: the competence is ignored
TargetLanguageMotherOnly(mt, lc) == IF Truthy(mt) THEN mt ELSE None

\* mutant: the mother tongue has priority over the competence
TargetLanguageMotherFirst(mt, lc) ==
    IF Truthy(mt) THEN mt
    ELSE IF Truthy(lc) /\ lc \notin Sentinels THEN lc
    ELSE None

\* priority: language_competence (if valid) > mother_tongue
TargetLanguage(mt, lc) ==
    IF Truthy(lc) /\ lc \notin Sentinels THEN lc
    ELSE IF Truthy(mt) THEN mt
    ELSE None

\* mutant: the lookup compares the language as typed
BucketMatchesCaseSensitive(tl, catalogue) ==
    Truthy(tl) /\ tl \in DOMAIN catalogue.language_specific

\* target_language and target_language.lower() in all_files["language_specific"]
BucketMatches(tl, catalogue) ==
    Truthy(tl) /\ Lower(tl) \in DOMAIN catalogue.language_specific

\* the session state a first run of the script creates
SessionInit ==
    /\ survey_step = "participant_info"
    /\ current_clip = 0
    /\ current_responses = <<>>
    /\ participant_audio_clips = <<>>
    /\ responses = <<>>
    /\ handed = <<>>
    /\ participants = 0
    /\ saves = <<>>
    /\ saved_indices = {}

\* survey_responses.pkl does not exist
NoFile == [exists |-> FALSE, content |-> <<>>]

\* no response has been stored anywhere yet
StorageEmpty ==
    /\ firestore = <<>>
    /\ sheet = <<>>
    /\ data_file = NoFile

Init ==
    /\ fs \in FileSystems
    /\ mother_tongue \in MotherTongues
    /\ language_competence \in Competences
    /\ pc = "start"
    /\ error = "none"
    /\ all_files = EmptyCatalogue
    /\ news_clip_pool = <<>>
    /\ news_real_pool = <<>>
    /\ other_general_pool = <<>>
    /\ other_lang_pool = <<>>
    /\ clip_quota = 0
    /\ real_quota = 0
    /\ clip_selected_count = 0
    /\ real_selected_count = 0
    /\ remaining_slots = 0
    /\ selected_general = <<>>
    /\ selected_language = <<>>
    /\ target_language = None
    /\ selected_clips = <<>>
    /\ clip_counter = 1
    /\ pool_target = N_RANDOM_CLIPS
    /\ suspended = None
    /\ SessionInit
    /\ other_session = None
    /\ firebase_service = "missing"
    /\ sheets_configured = FALSE
    /\ StorageEmpty

\* all_files = get_all_audio_files(); selected_clips = {}; clip_counter = 1
GetCatalogue ==
    /\ pc = "start"
    /\ \E scan \in get_all_audio_files(fs) :
          /\ all_files' = scan.files
          /\ error' = scan.error
          /\ pc' = IF scan.error = "none" THEN "general" ELSE "raised"
    /\ selected_clips' = <<>>
    /\ clip_counter' = 1
    /\ UNCHANGED <<fs, mother_tongue, language_competence,
                   news_clip_pool, news_real_pool, other_general_pool, other_lang_pool,
                   clip_quota, real_quota, clip_selected_count, real_selected_count,
                   remaining_slots, selected_general, selected_language, target_language>>
    /\ UNCHANGED outer_vars

\* the general pool up to the start of the top-up loop, for a target count
GeneralDrawFor(target) ==
    /\ pc = "general"
    /\ IF Len(all_files.general) > 0
       THEN \E d \in DrawOutcomes(all_files.general, target) :
              /\ news_clip_pool' = d.news_clip_pool
              /\ news_real_pool' = d.news_real_pool
              /\ other_general_pool' = d.other_pool
              /\ clip_quota' = d.clip_quota
              /\ real_quota' = d.real_quota
              /\ clip_selected_count' = d.clip_selected_count
              /\ real_selected_count' = d.real_selected_count
              /\ remaining_slots' = d.remaining_slots
              /\ selected_general' = d.selected
              /\ error' = d.error
              /\ pc' = IF d.error = "none" THEN "general_topup" ELSE "raised"
       ELSE /\ pc' = "language"
            /\ UNCHANGED <<news_clip_pool, news_real_pool, other_general_pool,
                           clip_quota, real_quota, clip_selected_count,
                           real_selected_count, remaining_slots, selected_general, error>>
    /\ UNCHANGED <<fs, mother_tongue, language_competence, all_files, other_lang_pool,
                   selected_language, target_language, selected_clips, clip_counter>>
    /\ UNCHANGED outer_vars

\* the general pool is drawn for N_RANDOM_CLIPS
GeneralDraw == GeneralDrawFor(N_RANDOM_CLIPS)

\* one iteration of the general top-up loop that takes a file
GeneralTopUp ==
    /\ pc = "general_topup"
    /\ remaining_slots > 0
    /\ LET branch == TopUpBranch(news_clip_pool, news_real_pool, other_general_pool,
                                 clip_selected_count, real_selected_count)
       IN /\ branch # "break"
          /\ IF branch = "clip"
             THEN /\ selected_general' = Append(selected_general, news_clip_pool[Len(news_clip_pool)])
                  /\ news_clip_pool' = Remaining(news_clip_pool, 1)
                  /\ clip_selected_count' = clip_selected_count + 1
                  /\ UNCHANGED <<news_real_pool, other_general_pool, real_selected_count>>
             ELSE IF branch = "real"
             THEN /\ selected_general' = Append(selected_general, news_real_pool[Len(news_real_pool)])
                  /\ news_real_pool' = Remaining(news_real_pool, 1)
                  /\ real_selected_count' = real_selected_count + 1
                  /\ UNCHANGED <<news_clip_pool, other_general_pool, clip_selected_count>>
             ELSE /\ selected_general' = Append(selected_general, other_general_pool[Len(other_general_pool)])
                  /\ other_general_pool' = Remaining(other_general_pool, 1)
                  /\ UNCHANGED <<news_clip_pool, news_real_pool, clip_selected_count,
                                 real_selected_count>>
    /\ remaining_slots' = remaining_slots - 1
    /\ UNCHANGED <<fs, mother_tongue, language_competence, pc, error, all_files,
                   other_lang_pool, clip_quota, real_quota, selected_language,
                   target_language, selected_clips, clip_counter>>
    /\ UNCHANGED outer_vars

\* the general top-up loop ends (no slot left, or break); shuffle and number
GeneralFinish ==
    /\ pc = "general_topup"
    /\ \/ remaining_slots <= 0
       \/ TopUpBranch(news_clip_pool, news_real_pool, other_general_pool,
                      clip_selected_count, real_selected_count) = "break"
    /\ \E shuffled \in Shuffles(selected_general) :
          /\ selected_general' = shuffled
          /\ selected_clips' = AddClips(selected_clips, shuffled, clip_counter)
          /\ clip_counter' = clip_counter + Len(shuffled)
    /\ pc' = "language"
    /\ UNCHANGED <<fs, mother_tongue, language_competence, error, all_files,
                   news_clip_pool, news_real_pool, other_general_pool, other_lang_pool,
                   clip_quota, real_quota, clip_selected_count, real_selected_count,
                   remaining_slots, selected_language, target_language>>
    /\ UNCHANGED outer_vars

\* the choice of the language and its pool up to the start of the top-up loop
LanguageDraw ==
    /\ pc = "language"
    /\ target_language' = TargetLanguage(mother_tongue, language_competence)
    /\ IF /\ BucketMatches(target_language', all_files)
          /\ Len(all_files.language_specific[Lower(target_language')]) > 0
       THEN \E d \in DrawOutcomes(all_files.language_specific[Lower(target_language')],
                                  M_LANGUAGE_CLIPS) :
              /\ news_clip_pool' = d.news_clip_pool
              /\ news_real_pool' = d.news_real_pool
              /\ other_lang_pool' = d.other_pool
              /\ clip_quota' = d.clip_quota
              /\ real_quota' = d.real_quota
              /\ clip_selected_count' = d.clip_selected_count
              /\ real_selected_count' = d.real_selected_count
              /\ remaining_slots' = d.remaining_slots
              /\ selected_language' = d.selected
              /\ error' = d.error
              /\ pc' = IF d.error = "none" THEN "language_topup" ELSE "raised"
       ELSE /\ pc' = "done"
            /\ UNCHANGED <<news_clip_pool, news_real_pool, other_lang_pool,
                           clip_quota, real_quota, clip_selected_count,
                           real_selected_count, remaining_slots, selected_language, error>>
    /\ UNCHANGED <<fs, mother_tongue, language_competence, all_files, other_general_pool,
                   selected_general, selected_clips, clip_counter>>
    /\ UNCHANGED outer_vars

\* one iteration of the language top-up loop that takes a file
LanguageTopUp ==
    /\ pc = "language_topup"
    /\ remaining_slots > 0
    /\ LET branch == TopUpBranch(news_clip_pool, news_real_pool, other_lang_pool,
                                 clip_selected_count, real_selected_count)
       IN /\ branch # "break"
          /\ IF branch = "clip"
             THEN /\ selected_language' = Append(selected_language, news_clip_pool[Len(news_clip_pool)])
                  /\ news_clip_pool' = Remaining(news_clip_pool, 1)
                  /\ clip_selected_count' = clip_selected_count + 1
                  /\ UNCHANGED <<news_real_pool, other_lang_pool, real_selected_count>>
             ELSE IF branch = "real"
             THEN /\ selected_language' = Append(selected_language, news_real_pool[Len(news_real_pool)])
                  /\ news_real_pool' = Remaining(news_real_pool, 1)
                  /\ real_selected_count' = real_selected_count + 1
                  /\ UNCHANGED <<news_clip_pool, other_lang_pool, clip_selected_count>>
             ELSE /\ selected_language' = Append(selected_language, other_lang_pool[Len(other_lang_pool)])
                  /\ other_lang_pool' = Remaining(other_lang_pool, 1)
                  /\ UNCHANGED <<news_clip_pool, news_real_pool, clip_selected_count,
                                 real_selected_count>>
    /\ remaining_slots' = remaining_slots - 1
    /\ UNCHANGED <<fs, mother_tongue, language_competence, pc, error, all_files,
                   other_general_pool, clip_quota, real_quota, selected_general,
                   target_language, selected_clips, clip_counter>>
    /\ UNCHANGED outer_vars

\* the language top-up loop ends; shuffle, number and return
LanguageFinish ==
    /\ pc = "language_topup"
    /\ \/ remaining_slots <= 0
       \/ TopUpBranch(news_clip_pool, news_real_pool, other_lang_pool,
                      clip_selected_count, real_selected_count) = "break"
    /\ \E shuffled \in Shuffles(selected_language) :
          /\ selected_language' = shuffled
          /\ selected_clips' = AddClips(selected_clips, shuffled, clip_counter)
          /\ clip_counter' = clip_counter + Len(shuffled)
    /\ pc' = "done"
    /\ UNCHANGED <<fs, mother_tongue, language_competence, error, all_files,
                   news_clip_pool, news_real_pool, other_general_pool, other_lang_pool,
                   clip_quota, real_quota, clip_selected_count, real_selected_count,
                   remaining_slots, selected_general, target_language>>
    /\ UNCHANGED outer_vars

Next ==
    \/ GetCatalogue
    \/ GeneralDraw
    \/ GeneralTopUp
    \/ GeneralFinish
    \/ LanguageDraw
    \/ LanguageTopUp
    \/ LanguageFinish

Spec == Init /\ [][Next]_vars

(* ------------------------------ properties ---------------------------- *)

\* the files of the returned assignment, in clip order
AssignedFiles == [i \in DOMAIN selected_clips |-> selected_clips[i].value.file]

\* a declared language has a bucket: a subfolder with that name (compared in
\* lower case) that holds at least one audio file
HasBucket(lang) ==
    /\ Truthy(lang)
    /\ \E d \in DOMAIN fs.dirs :
          Lower(d) = Lower(lang) /\ \E n \in fs.dirs[d] : IsAudio(n)

\* the file lies in the subfolder of the declared language
InBucketOf(file, lang) ==
    /\ Truthy(lang)
    /\ Len(file.dir) = 2
    /\ Lower(file.dir[2]) = Lower(lang)

CompetenceValid == Truthy(language_competence) /\ language_competence \notin Sentinels

\* the participant's selected language: the competence if valid, else the
\* mother tongue
SelectedLanguage == IF CompetenceValid THEN language_competence ELSE mother_tongue

\* the deduplicated pool of the selected language, empty without a match
SelectedBucket ==
    IF Truthy(SelectedLanguage) /\ Lower(SelectedLanguage) \in DOMAIN all_files.language_specific
    THEN all_files.language_specific[Lower(SelectedLanguage)]
    ELSE <<>>

CountClip(files) == Cardinality({i \in DOMAIN files : IsNewsClip(files[i])})

CountReal(files) == Cardinality({i \in DOMAIN files : IsNewsReal(files[i])})

Abs(x) == IF x < 0 THEN -x ELSE x

\* every element of pool occurs exactly once in list, and nothing else does
SameFilesOnce(list, pool) ==
    /\ Len(list) = Len(pool)
    /\ Range(list) = Range(pool)
    /\ \A i, j \in DOMAIN list : list[i] = list[j] => i = j

\* C1: the returned assignment never contains two clips with the same
\* base_name, counted over the general and the language contribution together.
C1_NoSharedBaseName ==
    pc = "done" =>
        \A i, j \in DOMAIN AssignedFiles :
            BaseName(AssignedFiles[i]) = BaseName(AssignedFiles[j]) => i = j

\* C2: at most N_RANDOM_CLIPS clips come from the general pool and at most
\* M_LANGUAGE_CLIPS from the selected language pool, and exactly that many
\* whenever the deduplicated pool holds at least that many candidates.
C2_QuotaBound ==
    pc = "done" =>
        /\ Len(selected_general) <= N_RANDOM_CLIPS
        /\ Len(selected_language) <= M_LANGUAGE_CLIPS
        /\ Len(all_files.general) >= N_RANDOM_CLIPS
               => Len(selected_general) = N_RANDOM_CLIPS
        /\ Len(SelectedBucket) >= M_LANGUAGE_CLIPS
               => Len(selected_language) = M_LANGUAGE_CLIPS

\* C2 witness: a general pool with more candidates than the quota was drawn from
C2_Witness ==
    /\ pc = "done"
    /\ Len(all_files.general) > N_RANDOM_CLIPS
    /\ Len(selected_general) = N_RANDOM_CLIPS

\* C3: when the deduplicated news_clip and news_real lists of a pool each hold
\* at least target \div 2 files, the numbers of news_clip and news_real clips
\* selected from that pool differ by at most 1.
C3_CategoryBalance ==
    pc = "done" =>
        /\ (/\ Len(NewsClipPool(all_files.general)) >= N_RANDOM_CLIPS \div 2
            /\ Len(NewsRealPool(all_files.general)) >= N_RANDOM_CLIPS \div 2)
               => Abs(CountClip(selected_general) - CountReal(selected_general)) <= 1
        /\ (/\ Len(NewsClipPool(SelectedBucket)) >= M_LANGUAGE_CLIPS \div 2
            /\ Len(NewsRealPool(SelectedBucket)) >= M_LANGUAGE_CLIPS \div 2)
               => Abs(CountClip(selected_language) - CountReal(selected_language)) <= 1

\* C3 witness: a general pool with 2 news_clip and 3 news_real candidates was
\* drawn from, and the selection holds 2 of each
C3_Witness ==
    /\ pc = "done"
    /\ Len(NewsClipPool(all_files.general)) = 2
    /\ Len(NewsRealPool(all_files.general)) = 3
    /\ CountClip(selected_general) = 2
    /\ CountReal(selected_general) = 2

\* C4: with a valid language_competence, and a bucket for the competence and
\* another for the mother tongue, every language clip comes from the
\* competence's bucket and none from the mother tongue's.
C4_CompetenceOverrides ==
    (/\ pc = "done"
     /\ CompetenceValid
     /\ HasBucket(language_competence)
     /\ HasBucket(mother_tongue)
     /\ Lower(language_competence) # Lower(mother_tongue))
        => /\ selected_language # <<>>
           /\ \A i \in DOMAIN selected_language :
                 /\ InBucketOf(selected_language[i], language_competence)
                 /\ ~InBucketOf(selected_language[i], mother_tongue)

\* C4 witness: competence Tamil, mother tongue hindi, both subfolders populated
C4_Witness ==
    /\ pc = "done"
    /\ language_competence = "Tamil"
    /\ mother_tongue = "hindi"
    /\ HasBucket("Tamil")
    /\ HasBucket("hindi")
    /\ selected_language # <<>>

\* C5: without a valid language_competence (absent or a sentinel) the language
\* clips come from the bucket whose lower-cased subfolder name equals the
\* lower-cased mother_tongue; without such a bucket there are none.
C5_MotherTongueFallback ==
    (pc = "done" /\ ~CompetenceValid)
        => /\ \A i \in DOMAIN selected_language :
                 InBucketOf(selected_language[i], mother_tongue)
           /\ HasBucket(mother_tongue) => selected_language # <<>>
           /\ ~HasBucket(mother_tongue) => selected_language = <<>>

\* C5 witness: a sentinel competence, mother tongue "TAMIL", subfolder "Tamil"
C5_Witness ==
    /\ pc = "done"
    /\ language_competence \in Sentinels
    /\ mother_tongue = "TAMIL"
    /\ selected_language # <<>>
    /\ \A i \in DOMAIN selected_language : selected_language[i].dir = <<"audio", "Tamil">>

\* the audio tree holds no audio file (or does not exist)
EmptyTree ==
    /\ \A n \in fs.root : ~IsAudio(n)
    /\ \A d \in DOMAIN fs.dirs : \A n \in fs.dirs[d] : ~IsAudio(n)

\* C6: with an empty catalogue (a missing audio folder included) the call
\* raises no error and returns an empty assignment, for every profile.
C6_EmptyCatalogue ==
    EmptyTree =>
        /\ error = "none"
        /\ pc # "raised"
        /\ pc \notin {"general_topup", "language_topup"}
        /\ selected_clips = <<>>

\* C6 witness: the call returned for a missing audio folder
C6_Witness ==
    /\ pc = "done"
    /\ ~fs.exists
    /\ selected_clips = <<>>

\* C7: no error is raised, and a pool with fewer deduplicated candidates than
\* its quota contributes every candidate exactly once.
C7_UnderFill ==
    /\ error = "none"
    /\ pc # "raised"
    /\ pc = "done" =>
          /\ Len(all_files.general) < N_RANDOM_CLIPS
                 => SameFilesOnce(selected_general, all_files.general)
          /\ Len(SelectedBucket) < M_LANGUAGE_CLIPS
                 => SameFilesOnce(selected_language, SelectedBucket)

\* C7 witness: a general pool of 3 candidates with a file of the other
\* category, and a language pool of 1 candidate, both taken whole
C7_Witness ==
    /\ pc = "done"
    /\ Len(all_files.general) = 3
    /\ OtherPool(all_files.general) # <<>>
    /\ Len(selected_general) = 3
    /\ Len(SelectedBucket) = 1
    /\ Len(selected_language) = 1

\* C8: when the selected language matches no bucket, no error is raised and
\* the returned assignment is exactly the general contribution.
C8_NoBucket ==
    (pc = "done" /\ ~HasBucket(SelectedLanguage))
        => /\ error = "none"
           /\ selected_language = <<>>
           /\ AssignedFiles = selected_general

\* C8 witness: competence Malayalam has no bucket while the mother tongue has
\* one; the assignment is the non-empty general contribution
C8_Witness ==
    /\ pc = "done"
    /\ language_competence = "Malayalam"
    /\ HasBucket(mother_tongue)
    /\ selected_general # <<>>
    /\ AssignedFiles = selected_general

ScenarioPath(name) == Join(AudioDir, name)

\* C9: in the concrete scenario every result has exactly 4 clips: news_clip_1,
\* one variant of news_clip_2, and exactly 2 of the 3 news_real files.
C9_Scenario ==
    (pc = "done" /\ fs = ScenarioFS)
        => LET S == Range(AssignedFiles)
               reals == {ScenarioPath(NewsReal(ToString(i))) : i \in 1..3}
           IN /\ Len(selected_clips) = 4
              /\ Cardinality(S) = 4
              /\ ScenarioPath(NewsClip("1")) \in S
              /\ (ScenarioPath(NewsClip("2")) \in S) # (ScenarioPath(NewsClipSpedup("2")) \in S)
              /\ Cardinality(S \cap reals) = 2

\* C9 witness: a result of the scenario that holds the sped-up variant
C9_Witness ==
    /\ pc = "done"
    /\ fs = ScenarioFS
    /\ ScenarioPath(NewsClipSpedup("2")) \in Range(AssignedFiles)
    /\ ScenarioPath(NewsReal("3")) \notin Range(AssignedFiles)

\* C10: the assignment is the general contribution followed by the language
\* contribution, and its identifiers are clip_1 .. clip_len in that order.
C10_OrderAndIds ==
    pc = "done" =>
        /\ AssignedFiles = selected_general \o selected_language
        /\ \A i \in DOMAIN selected_clips : selected_clips[i].key = <<"clip_", i>>
        /\ clip_counter = Len(selected_clips) + 1

\* C10 witness: an assignment with two general clips and two language clips
C10_Witness ==
    /\ pc = "done"
    /\ Len(selected_general) = 2
    /\ Len(selected_language) = 2
    /\ Len(selected_clips) = 4

\* the audio files of a folder as paths
PathsIn(dir, names) == {Join(dir, n) : n \in {m \in names : IsAudio(m)}}

\* exactly one file of out for every base name of the files in, taken from in
OnePerBaseName(out, in) ==
    /\ Range(out) \subseteq in
    /\ \A p \in in : Cardinality({i \in DOMAIN out : BaseName(out[i]) = BaseName(p)}) = 1
    /\ Len(out) = Cardinality({BaseName(p) : p \in in})

\* C14: deduplication of one pool returns exactly one file for each base_name
\* of the pool, a member of the group with that base_name, and leaves no
\* base_name without a representative.
C14_OnePerBaseName ==
    (pc # "start" /\ error = "none" /\ fs.exists) =>
        /\ OnePerBaseName(all_files.general, PathsIn(AudioDir, fs.root))
        /\ \A d \in DOMAIN fs.dirs :
              PathsIn(Append(AudioDir, d), fs.dirs[d]) # {} =>
                  /\ Lower(d) \in DOMAIN all_files.language_specific
                  /\ OnePerBaseName(all_files.language_specific[Lower(d)],
                                    PathsIn(Append(AudioDir, d), fs.dirs[d]))

\* C14 witness: both variants of news_clip_2 and news_clip_1 on disk; the
\* sped-up variant represents news_clip_2
C14_Witness ==
    /\ pc = "general"
    /\ {NewsClip("1"), NewsClip("2"), NewsClipSpedup("2")} \subseteq fs.root
    /\ Join(AudioDir, NewsClipSpedup("2")) \in Range(all_files.general)
    /\ Join(AudioDir, NewsClip("2")) \notin Range(all_files.general)

\* the counts of the quota draw for target t as the claim states them
StatedDraw(files, t, clip_count, real_count) ==
    LET c == Len(NewsClipPool(files))
        r == Len(NewsRealPool(files))
        swap == t % 2 = 1 /\ c > r
        q_clip == IF swap THEN t - (t \div 2) ELSE t \div 2
        q_real == IF swap THEN t \div 2 ELSE t - (t \div 2)
    IN /\ clip_count = Min(q_clip, c)
       /\ real_count = Min(q_real, r)

\* C15 as stated: before top-up the draw takes min(q_clip, |news_clip list|)
\* and min(q_real, |news_real list|) files with q_clip = target \div 2 and
\* q_real = target - target \div 2 of the pool's target N or M, swapped exactly
\* when the target is odd and the news_clip list is the larger.
C15_DrawFromTarget ==
    [][/\ (pc = "general" /\ pc' = "general_topup")
            => StatedDraw(all_files.general, N_RANDOM_CLIPS,
                          clip_selected_count', real_selected_count')
       /\ (pc = "language" /\ pc' = "language_topup")
            => StatedDraw(SelectedBucket, M_LANGUAGE_CLIPS,
                          clip_selected_count', real_selected_count')]_vars

\* C15 amended: the same with the quotas computed from
\* min(target, number of deduplicated files of the pool) instead of the target.
C15_DrawFromCappedTarget ==
    [][/\ (pc = "general" /\ pc' = "general_topup")
            => StatedDraw(all_files.general,
                          Min(N_RANDOM_CLIPS, Len(all_files.general)),
                          clip_selected_count', real_selected_count')
       /\ (pc = "language" /\ pc' = "language_topup")
            => StatedDraw(SelectedBucket,
                          Min(M_LANGUAGE_CLIPS, Len(SelectedBucket)),
                          clip_selected_count', real_selected_count')]_vars

\* C15 witness: a general pool of 2 news_clip and 1 news_real candidates, just
\* drawn from with swapped quotas 2 and 1
C15_Witness ==
    /\ pc = "general_topup"
    /\ Len(NewsClipPool(all_files.general)) = 2
    /\ Len(NewsRealPool(all_files.general)) = 1
    /\ Len(all_files.general) = 3
    /\ clip_quota = 2
    /\ real_quota = 1
    /\ clip_selected_count = 2
    /\ real_selected_count = 1

\* a file of the other category is among the selected only if every
\* news_clip and news_real candidate of the pool is
OtherOnlyAfterAll(selected, pool) ==
    (Range(selected) \cap Range(OtherPool(pool)) # {})
        => Range(NewsClipPool(pool)) \cup Range(NewsRealPool(pool)) \subseteq Range(selected)

\* C16: a file of the other category is selected from a pool only when every
\* deduplicated news_clip and news_real candidate of that pool has been selected.
C16_OtherLast ==
    /\ OtherOnlyAfterAll(selected_general, all_files.general)
    /\ OtherOnlyAfterAll(selected_language, SelectedBucket)

\* C16 witness: the top-up loop took an other file after the news_real files
\* of the pool ran out
C16_Witness ==
    /\ pc = "general_topup"
    /\ Range(selected_general) \cap Range(OtherPool(all_files.general)) # {}
    /\ Len(NewsRealPool(all_files.general)) >= 2
    /\ CountReal(selected_general) = Len(NewsRealPool(all_files.general))

\* C18: whenever the top-up loop runs an iteration, at most one of the
\* news_clip and news_real lists still has unclaimed files.
C18_OneListLeft ==
    (pc \in {"general_topup", "language_topup"} /\ remaining_slots > 0)
        => (news_clip_pool = <<>> \/ news_real_pool = <<>>)

\* C18 witness: an iteration of the general top-up loop is about to take a
\* news_real file
C18_Witness ==
    /\ pc = "general_topup"
    /\ remaining_slots > 0
    /\ news_clip_pool = <<>>
    /\ news_real_pool # <<>>

\* C20: with an empty general pool and a non-empty bucket for the selected
\* language, no error is raised and the assignment consists of language clips
\* only, numbered from clip_1.
C20_LanguageOnly ==
    (/\ pc \in {"done", "raised"}
     /\ fs.exists
     /\ \A n \in fs.root : ~IsAudio(n)
     /\ HasBucket(SelectedLanguage))
        => /\ pc = "done"
           /\ error = "none"
           /\ selected_clips # <<>>
           /\ \A i \in DOMAIN selected_clips :
                 /\ InBucketOf(selected_clips[i].value.file, SelectedLanguage)
                 /\ selected_clips[i].key = <<"clip_", i>>

\* C20 witness: no general file, two clips from the subfolder Tamil
C20_Witness ==
    /\ pc = "done"
    /\ fs.root = {}
    /\ Len(selected_clips) = 2
    /\ selected_clips[1].key = <<"clip_", 1>>
    /\ selected_clips[1].value.file.dir = <<"audio", "Tamil">>

(* -------------------- one pool drawn for any target -------------------- *)

\* the targets 0..MaxTarget are drawn
MaxTarget == 5

\* each of the three categories has at most this many files
MaxPool == 2

OtherFile(i) == <<"jingle_", i, ".wav">>

\* an audio folder with c news_clip, r news_real and o other files, no speed
\* variant and no subfolder
PoolFS(c, r, o) ==
    [exists |-> TRUE,
     root |-> {NewsClip(ToString(i)) : i \in 1..c}
              \cup {NewsReal(ToString(i)) : i \in 1..r}
              \cup {OtherFile(ToString(i)) : i \in 1..o},
     dirs |-> <<>>]

\* the locals of a call that has not started
LocalsInit ==
    /\ pc = "start"
    /\ error = "none"
    /\ all_files = EmptyCatalogue
    /\ news_clip_pool = <<>>
    /\ news_real_pool = <<>>
    /\ other_general_pool = <<>>
    /\ other_lang_pool = <<>>
    /\ clip_quota = 0
    /\ real_quota = 0
    /\ clip_selected_count = 0
    /\ real_selected_count = 0
    /\ remaining_slots = 0
    /\ selected_general = <<>>
    /\ selected_language = <<>>
    /\ target_language = None
    /\ selected_clips = <<>>
    /\ clip_counter = 1

InitPool ==
    /\ fs \in {PoolFS(c, r, o) : c \in 0..MaxPool, r \in 0..MaxPool, o \in 0..MaxPool}
    /\ pool_target \in 0..MaxTarget
    /\ mother_tongue = None
    /\ language_competence = None
    /\ LocalsInit
    /\ suspended = None
    /\ SessionInit
    /\ other_session = None
    /\ firebase_service = "missing"
    /\ sheets_configured = FALSE
    /\ StorageEmpty

\* the pool is drawn for the target under study
PoolDraw == GeneralDrawFor(pool_target)

\* the scan, the draw and the top-up loop of one pool
NextPool ==
    \/ GetCatalogue
    \/ PoolDraw
    \/ GeneralTopUp

SpecPool == InitPool /\ [][NextPool]_vars

\* the pool has been drawn and its top-up loop has ended
PoolDrawn ==
    \/ pc = "language"
    \/ /\ pc = "general_topup"
       /\ \/ remaining_slots <= 0
          \/ TopUpBranch(news_clip_pool, news_real_pool, other_general_pool,
                         clip_selected_count, real_selected_count) = "break"

\* <<news_clip, news_real, other>> counts of a selection
Counts(selected) ==
    <<CountClip(selected), CountReal(selected),
      Len(selected) - CountClip(selected) - CountReal(selected)>>

RECURSIVE StatedTopUp(_, _, _, _, _, _, _)
\* step 5 as stated: c, r, o files are unclaimed, cc, rc, oc are drawn so far;
\* with unclaimed files on both sides the side behind is preferred, either
\* side on a tie
StatedTopUp(c, r, o, cc, rc, oc, slots) ==
    IF slots <= 0 THEN {<<cc, rc, oc>>}
    ELSE IF c > 0 /\ r > 0
    THEN (IF cc <= rc THEN StatedTopUp(c - 1, r, o, cc + 1, rc, oc, slots - 1) ELSE {})
         \cup (IF rc <= cc THEN StatedTopUp(c, r - 1, o, cc, rc + 1, oc, slots - 1) ELSE {})
    ELSE IF c > 0 THEN StatedTopUp(c - 1, r, o, cc + 1, rc, oc, slots - 1)
    ELSE IF r > 0 THEN StatedTopUp(c, r - 1, o, cc, rc + 1, oc, slots - 1)
    ELSE IF o > 0 THEN StatedTopUp(c, r, o - 1, cc, rc, oc + 1, slots - 1)
    ELSE {<<cc, rc, oc>>}

\* steps 3 to 5 as stated, computed from the target t itself, on category
\* lists of c, r and o files: the counts the steps can end with
StatedCounts(t, c, r, o) ==
    LET swap == t % 2 = 1 /\ c > r
        q_clip == IF swap THEN t - (t \div 2) ELSE t \div 2
        q_real == IF swap THEN t \div 2 ELSE t - (t \div 2)
        dc == Min(q_clip, c)
        dr == Min(q_real, r)
    IN StatedTopUp(c - dc, r - dr, o, dc, dr, 0, t - dc - dr)

\* C19: for every target and every combination of sizes of the three
\* deduplicated category lists, the code (quotas from min(target, pool size))
\* selects the same number of news_clip, news_real and other files as steps 3
\* to 5 computed from the target itself, whatever the random outcome.
C19_SameCounts ==
    PoolDrawn
        => StatedCounts(pool_target,
                        Len(NewsClipPool(all_files.general)),
                        Len(NewsRealPool(all_files.general)),
                        Len(OtherPool(all_files.general)))
           = {Counts(selected_general)}

\* C19 witness: the target 5 exceeds the pool of 1 + 2 + 1 files, the code
\* computed its quotas from 4 and the loop topped up with the other file
C19_Witness ==
    /\ PoolDrawn
    /\ pool_target = 5
    /\ clip_quota + real_quota = 4
    /\ Counts(selected_general) = <<1, 2, 1>>

(* ------------------ the whole call, as its callers see it -------------- *)

RECURSIVE TopUpLoop(_, _, _, _, _, _, _)
\* the top-up loop run to its end: the selected list it leaves
TopUpLoop(cp, rp, op, cc, rc, selected, slots) ==
    IF slots <= 0 THEN selected
    ELSE LET branch == TopUpBranch(cp, rp, op, cc, rc)
         IN IF branch = "clip"
            THEN TopUpLoop(Remaining(cp, 1), rp, op, cc + 1, rc,
                           Append(selected, cp[Len(cp)]), slots - 1)
            ELSE IF branch = "real"
            THEN TopUpLoop(cp, Remaining(rp, 1), op, cc, rc + 1,
                           Append(selected, rp[Len(rp)]), slots - 1)
            ELSE IF branch = "other"
            THEN TopUpLoop(cp, rp, Remaining(op, 1), cc, rc,
                           Append(selected, op[Len(op)]), slots - 1)
            ELSE selected

\* one pool from the partition to the final shuffle: every list it can select
PoolSelections(files, target) ==
    IF Len(files) = 0 THEN {[error |-> "none", selected |-> <<>>]}
    ELSE UNION {IF d.error # "none"
                THEN {[error |-> d.error, selected |-> <<>>]}
                ELSE {[error |-> "none", selected |-> shuffled] :
                         shuffled \in Shuffles(TopUpLoop(d.news_clip_pool, d.news_real_pool,
                                                         d.other_pool, d.clip_selected_count,
                                                         d.real_selected_count, d.selected,
                                                         d.remaining_slots))}
                : d \in DrawOutcomes(files, target)}

\* get_participant_audio_clips(mother_tongue, language_competence) on the
\* audio tree f: every dict it can return, or the exception it raises
get_participant_audio_clips(f, mt, lc) ==
    UNION {IF scan.error # "none"
           THEN {[error |-> scan.error, clips |-> <<>>]}
           ELSE LET tl == TargetLanguage(mt, lc)
                    language_files ==
                        IF BucketMatches(tl, scan.files)
                        THEN scan.files.language_specific[Lower(tl)]
                        ELSE <<>>
                IN {IF g.error # "none" THEN [error |-> g.error, clips |-> <<>>]
                    ELSE IF l.error # "none" THEN [error |-> l.error, clips |-> <<>>]
                    ELSE [error |-> "none",
                          clips |-> AddClips(AddClips(<<>>, g.selected, 1),
                                             l.selected, 1 + Len(g.selected))]
                    : g \in PoolSelections(scan.files.general, N_RANDOM_CLIPS),
                      l \in PoolSelections(language_files, M_LANGUAGE_CLIPS)}
           : scan \in get_all_audio_files(f)}

\* the steps of a call end with a dict the whole call can return
StepsAgreeWithCall ==
    pc = "done"
        => [error |-> "none", clips |-> selected_clips]
               \in get_participant_audio_clips(fs, mother_tongue, language_competence)

(* ------------------------------ the survey ----------------------------- *)

\* at most this many participants start a survey in one session
MaxParticipants == 2

\* save_response is called at most this many times in one session
MaxSaves == 2

\* key in d, d[key], list(d.keys()) on a dict kept in insertion order
DictHas(d, key) == \E i \in DOMAIN d : d[i].key = key

DictGet(d, key) == d[CHOOSE i \in DOMAIN d : d[i].key = key].value

Keys(d) == [i \in DOMAIN d |-> d[i].key]

\* what may be typed into the mother tongue field
TypedMotherTongues == {"  ", " Tamil "}

\* mutant: the typed text is taken as it is
StripNothing(s) == s

\* str.strip() on the typed mother tongues
Strip(s) ==
    CASE s = "  " -> ""
      [] s = " Tamil " -> "Tamil"
      [] OTHER -> s

language_choices ==
    <<"Select a language", "Malayalam", "Tamil", "Hindi", "None / Not applicable">>

\* the number input of the age field
Ages == {18}

\* the answers of one completed clip page
ClipPayloads == {"answers"}

\* the audio trees of the survey: no file; one file, in Tamil; one news_clip
\* at the root and one of the same name in Tamil; two files at the root and
\* another in Tamil
SurveyFileSystems ==
    {[exists |-> TRUE, root |-> {}, dirs |-> <<>>],
     [exists |-> TRUE, root |-> {},
      dirs |-> [d \in {"Tamil"} |-> {<<"song", ".ogg">>}]],
     [exists |-> TRUE, root |-> {NewsClip("1")},
      dirs |-> [d \in {"Tamil"} |-> {NewsClip("1")}]],
     [exists |-> TRUE, root |-> {NewsClip("1"), NewsReal("1")},
      dirs |-> [d \in {"Tamil"} |-> {<<"song", ".ogg">>}]]}

\* the storage configurations of a deployment
FirebaseStates == {"missing", "unavailable", "available"}

InitSurvey ==
    /\ fs \in SurveyFileSystems
    /\ firebase_service \in FirebaseStates
    /\ sheets_configured \in BOOLEAN
    /\ StorageEmpty
    /\ SessionInit
    /\ other_session = None
    /\ mother_tongue = None
    /\ language_competence = None
    /\ LocalsInit
    /\ pool_target = N_RANDOM_CLIPS
    /\ suspended = None

\* mutant: the page is rendered whatever the step of the survey is
MainShowsAnyStep(page) ==
    \A scan \in get_all_audio_files(fs) :
        /\ scan.error = "none"
        /\ (scan.files.general # <<>> \/ DOMAIN scan.files.language_specific # {})

\* main: with a non-empty catalogue the page of the current step is rendered
MainShows(page) ==
    /\ \A scan \in get_all_audio_files(fs) :
          /\ scan.error = "none"
          /\ (scan.files.general # <<>> \/ DOMAIN scan.files.language_specific # {})
    /\ survey_step = page

\* details.get('file_name') or os.path.basename(details['file'])
ClipName(details) ==
    IF details.file_name # <<>> THEN details.file_name ELSE Basename(details.file)

\* generate_participant_id: an identifier no earlier participant has
generate_participant_id(n) == <<"P", n>>

\* the current_responses dict a started survey begins with
NewResponses(participant_id, age, typed, choice, participant_clips) ==
    <<[key |-> "participant_id", value |-> participant_id],
      [key |-> "age", value |-> IF age # 0 THEN age ELSE None],
      [key |-> "mother_tongue", value |-> Strip(typed)],
      [key |-> "language_competence", value |-> choice],
      [key |-> "clip_sequence",
       value |-> [i \in DOMAIN participant_clips |-> ClipName(participant_clips[i].value)]],
      [key |-> "clips", value |-> <<>>]>>

\* the participant form is submitted
SubmitParticipantForm ==
    /\ MainShows("participant_info")
    /\ participants < MaxParticipants
    /\ \E typed \in TypedMotherTongues, choice \in Range(language_choices), age \in Ages :
          IF Strip(typed) = "" \/ choice = "Select a language"
          THEN UNCHANGED <<session_vars, participants>>
          ELSE \E out \in get_participant_audio_clips(fs, Strip(typed), choice) :
                 IF out.error # "none" \/ out.clips = <<>>
                 THEN UNCHANGED <<session_vars, participants>>
                 ELSE /\ participant_audio_clips' = out.clips
                      /\ current_responses' =
                            NewResponses(generate_participant_id(participants + 1),
                                         age, typed, choice, out.clips)
                      /\ current_clip' = 0
                      /\ survey_step' = "clip_survey"
                      /\ participants' = participants + 1
                      /\ saved_indices' = {}
                      /\ UNCHANGED responses
    /\ UNCHANGED <<fs, call_vars, pool_target, suspended, storage_vars, handed, saves,
                   other_session>>

\* mutant: the index is decremented without the test
PreviousIndexUnguarded(current_index) == current_index - 1

\* if current_index > 0: st.session_state.current_clip -= 1
PreviousIndex(current_index) ==
    IF current_index > 0 THEN current_index - 1 ELSE current_index

\* "Previous Clip" is clicked
PreviousClip ==
    /\ MainShows("clip_survey")
    /\ participant_audio_clips # <<>>
    /\ current_clip' = PreviousIndex(current_clip)
    /\ UNCHANGED <<survey_step, current_responses, participant_audio_clips, responses,
                   saved_indices>>
    /\ UNCHANGED <<fs, call_vars, pool_target, suspended, storage_vars, handed, participants,
                   saves, other_session>>

\* payload = deepcopy(response_data); payload['timestamp'] = the time of the call
Payload(response_data) == DictSet(response_data, "timestamp", "now")

\* one attempted write: the backend and whether the write succeeded
Attempt(backend, ok) == [backend |-> backend, ok |-> ok]

\* mutant: the local file is written after the collection accepted the write
save_responses_and_file(all_responses, documents) ==
    IF firebase_service = "missing"
    THEN {[firestore |-> documents, data_file |-> data_file, raised |-> "AttributeError",
           attempts |-> <<>>]}
    ELSE {[firestore |-> Append(documents, all_responses[Len(all_responses)]),
           data_file |-> [exists |-> TRUE, content |-> all_responses], raised |-> "none",
           attempts |-> <<Attempt("firestore", TRUE), Attempt("file", TRUE)>>]}

\* save_responses(all_responses) with the collection as the caller left it:
\* the service is None and the call raises; or the latest response is written
\* to the collection; or the local file is written, or opening it fails
save_responses(all_responses, documents) ==
    IF firebase_service = "missing"
    THEN {[firestore |-> documents, data_file |-> data_file, raised |-> "AttributeError",
           attempts |-> <<>>]}
    ELSE LET retried == firebase_service = "available" /\ all_responses # <<>>
             failed_retry == IF retried THEN <<Attempt("firestore", FALSE)>> ELSE <<>>
         IN (IF retried
             THEN {[firestore |-> Append(documents, all_responses[Len(all_responses)]),
                    data_file |-> data_file, raised |-> "none",
                    attempts |-> <<Attempt("firestore", TRUE)>>]}
             ELSE {})
            \cup {[firestore |-> documents,
                   data_file |-> IF ok THEN [exists |-> TRUE, content |-> all_responses]
                                 ELSE data_file,
                   raised |-> "none",
                   attempts |-> failed_retry \o <<Attempt("file", ok)>>] : ok \in BOOLEAN}

\* save_response(response_data): every outcome of the three backends, tried in
\* the order collection, spreadsheet, local file; a failed write falls through
save_response(response_data) ==
    LET payload == Payload(response_data)
        appended == Append(responses, payload)
        failed_firebase ==
            IF firebase_service = "available" THEN <<Attempt("firestore", FALSE)>> ELSE <<>>
        failed_sheet == IF sheets_configured THEN <<Attempt("sheet", FALSE)>> ELSE <<>>
        by_firebase ==
            IF firebase_service = "available"
            THEN {[result |-> "True", responses |-> appended,
                   firestore |-> Append(firestore, payload),
                   sheet |-> sheet, data_file |-> data_file,
                   attempts |-> <<Attempt("firestore", TRUE)>>]}
            ELSE {}
        by_sheet ==
            IF sheets_configured
            THEN {[result |-> "True", responses |-> appended,
                   firestore |-> firestore,
                   sheet |-> Append(sheet, payload), data_file |-> data_file,
                   attempts |-> failed_firebase \o <<Attempt("sheet", TRUE)>>]}
            ELSE {}
        by_file ==
            {[result |-> IF o.raised = "none" THEN "True" ELSE o.raised,
              responses |-> appended,
              firestore |-> o.firestore,
              sheet |-> sheet, data_file |-> o.data_file,
              attempts |-> failed_firebase \o failed_sheet \o o.attempts] :
                o \in save_responses(appended, firestore)}
    IN by_firebase \cup by_sheet \cup by_file

\* current_responses.setdefault('clips', {}); current_responses['clips'][clip_name] = clip_payload
StoreAnswer(record, clip_name, clip_payload) ==
    LET with_clips == IF DictHas(record, "clips") THEN record ELSE DictSet(record, "clips", <<>>)
    IN DictSet(with_clips, "clips", DictSet(DictGet(with_clips, "clips"), clip_name, clip_payload))

\* mutant: every clip is taken for the last one
HasNextClipNever(current_index, clip_ids) == FALSE

\* if current_index < len(clip_ids) - 1
HasNextClip(current_index, clip_ids) == current_index < Len(clip_ids) - 1

\* "Save and Continue" is clicked on the page of the current clip; complete =
\* no question of the page is left unanswered
SaveAndContinue ==
    /\ MainShows("clip_survey")
    /\ participant_audio_clips # <<>>
    /\ current_clip + 1 \in DOMAIN participant_audio_clips
    /\ \E complete \in BOOLEAN, clip_payload \in ClipPayloads :
          LET clip_ids == Keys(participant_audio_clips)
              clip_data == DictGet(participant_audio_clips, clip_ids[current_clip + 1])
              answered == StoreAnswer(current_responses, ClipName(clip_data), clip_payload)
          IN IF ~complete
             THEN UNCHANGED <<session_vars, storage_vars, handed, saves>>
             ELSE IF HasNextClip(current_clip, clip_ids)
             THEN /\ current_responses' = answered
                  /\ saved_indices' = saved_indices \cup {current_clip}
                  /\ current_clip' = current_clip + 1
                  /\ UNCHANGED <<survey_step, participant_audio_clips, responses,
                                 storage_vars, handed, saves>>
             ELSE /\ Len(handed) < MaxSaves
                  /\ current_responses' = answered
                  /\ saved_indices' = saved_indices \cup {current_clip}
                  /\ handed' = Append(handed, answered)
                  /\ \E o \in save_response(answered) :
                        /\ responses' = o.responses
                        /\ firestore' = o.firestore
                        /\ sheet' = o.sheet
                        /\ data_file' = o.data_file
                        /\ saves' = Append(saves, [attempts |-> o.attempts,
                                                   result |-> o.result])
                        /\ survey_step' = IF o.result = "True" THEN "completed" ELSE survey_step
                  /\ UNCHANGED <<current_clip, participant_audio_clips,
                                 firebase_service, sheets_configured>>
    /\ UNCHANGED <<fs, call_vars, pool_target, suspended, participants, other_session>>

\* mutant: the clip index is not reset
TakeAnotherSurveyKeepsIndex ==
    /\ MainShows("completed")
    /\ survey_step' = "participant_info"
    /\ current_responses' = <<>>
    /\ participant_audio_clips' = <<>>
    /\ UNCHANGED <<current_clip, responses, saved_indices>>
    /\ UNCHANGED <<fs, call_vars, pool_target, suspended, storage_vars, handed, participants,
                   saves, other_session>>

\* "Take Another Survey" is clicked on the completion page
TakeAnotherSurvey ==
    /\ MainShows("completed")
    /\ survey_step' = "participant_info"
    /\ current_clip' = 0
    /\ current_responses' = <<>>
    /\ participant_audio_clips' = <<>>
    /\ UNCHANGED <<responses, saved_indices>>
    /\ UNCHANGED <<fs, call_vars, pool_target, suspended, storage_vars, handed, participants,
                   saves, other_session>>

NextSurvey ==
    \/ SubmitParticipantForm
    \/ PreviousClip
    \/ SaveAndContinue
    \/ TakeAnotherSurvey

SpecSurvey == InitSurvey /\ [][NextSurvey]_vars

\* the record has one answer entry per clip of its clip_sequence, keyed by
\* the clip's file name
OneEntryPerClip(record) ==
    LET clips == DictGet(record, "clips")
        clip_sequence == DictGet(record, "clip_sequence")
    IN /\ Len(clips) = Len(clip_sequence)
       /\ \A k \in DOMAIN clip_sequence : DictHas(clips, clip_sequence[k])

\* C11: the record handed to save_response when a survey completes has one
\* per-clip answer entry for each assigned clip: its 'clips' map has as many
\* entries as clip_sequence, each keyed by the clip's file name.
C11_OneEntryPerClip == \A i \in DOMAIN handed : OneEntryPerClip(handed[i])

\* the same for the records whose clips all have different file names
OneEntryPerDistinctName ==
    \A i \in DOMAIN handed :
        LET clip_sequence == DictGet(handed[i], "clip_sequence")
        IN (\A j, k \in DOMAIN clip_sequence : clip_sequence[j] = clip_sequence[k] => j = k)
               => OneEntryPerClip(handed[i])

\* a record with three answered clips was handed to save_response
ThreeClipsHanded ==
    \E i \in DOMAIN handed : Len(DictGet(handed[i], "clips")) = 3

\* C12: the clip assignment is set once, when the participant form is
\* accepted, is left unchanged by every later action of the clip survey, and is
\* cleared only by "Take Another Survey".
C12_AssignmentFrame ==
    [][/\ (participant_audio_clips' # participant_audio_clips)
            => \/ /\ survey_step = "participant_info"
                  /\ survey_step' = "clip_survey"
                  /\ participant_audio_clips = <<>>
                  /\ participant_audio_clips' # <<>>
               \/ /\ survey_step = "completed"
                  /\ survey_step' = "participant_info"
                  /\ participant_audio_clips' = <<>>
       /\ (survey_step = "participant_info" /\ survey_step' = "clip_survey")
            => participant_audio_clips' # <<>>
       /\ (survey_step = "completed" /\ survey_step' = "participant_info")
            => participant_audio_clips' = <<>>]_vars

\* C12 witness: a second participant is on the last of three clips after a
\* Previous Clip, the first survey having been saved and reset
C12_Witness ==
    /\ survey_step = "clip_survey"
    /\ participants = 2
    /\ Len(handed) = 1
    /\ Len(participant_audio_clips) = 3
    /\ current_clip = 1
    /\ Len(DictGet(current_responses, "clips")) = 2

(* ------------------------- two calls interleaved ----------------------- *)

\* the audio tree the two calls scan: three general files, two in Tamil, one
\* in hindi, so that both top-up loops run
TwoCallFS ==
    [exists |-> TRUE,
     root |-> {NewsClip("1"), NewsReal("1"), <<"intro", ".WAV">>},
     dirs |-> [d \in {"Tamil", "hindi"} |->
                 IF d = "Tamil"
                 THEN {<<"NEWS_REAL_", "1", ".MP3">>, <<"song", ".ogg">>}
                 ELSE {NewsReal("1")}]]

\* <<mother_tongue, language_competence>> of a call
CallProfiles ==
    {<<"TAMIL", None>>, <<"hindi", "None / Not applicable">>, <<None, None>>}

\* the arguments and locals of the running call
Locals ==
    [mother_tongue |-> mother_tongue,
     language_competence |-> language_competence,
     pc |-> pc,
     error |-> error,
     all_files |-> all_files,
     news_clip_pool |-> news_clip_pool,
     news_real_pool |-> news_real_pool,
     other_general_pool |-> other_general_pool,
     other_lang_pool |-> other_lang_pool,
     clip_quota |-> clip_quota,
     real_quota |-> real_quota,
     clip_selected_count |-> clip_selected_count,
     real_selected_count |-> real_selected_count,
     remaining_slots |-> remaining_slots,
     selected_general |-> selected_general,
     selected_language |-> selected_language,
     target_language |-> target_language,
     selected_clips |-> selected_clips,
     clip_counter |-> clip_counter]

\* the arguments and locals of a call that has not started
FreshLocals(profile) ==
    [mother_tongue |-> profile[1],
     language_competence |-> profile[2],
     pc |-> "start",
     error |-> "none",
     all_files |-> EmptyCatalogue,
     news_clip_pool |-> <<>>,
     news_real_pool |-> <<>>,
     other_general_pool |-> <<>>,
     other_lang_pool |-> <<>>,
     clip_quota |-> 0,
     real_quota |-> 0,
     clip_selected_count |-> 0,
     real_selected_count |-> 0,
     remaining_slots |-> 0,
     selected_general |-> <<>>,
     selected_language |-> <<>>,
     target_language |-> None,
     selected_clips |-> <<>>,
     clip_counter |-> 1]

\* mutant: the four candidate lists are shared by the calls
CallLocalsSharedPools ==
    {"mother_tongue", "language_competence", "pc", "error", "all_files", "clip_quota",
     "real_quota", "clip_selected_count", "real_selected_count", "remaining_slots",
     "selected_general", "selected_language", "target_language", "selected_clips",
     "clip_counter"}

\* the names get_participant_audio_clips binds: its two parameters and the
\* variables assigned in its body, none declared global
CallLocals ==
    {"mother_tongue", "language_competence", "pc", "error", "all_files",
     "news_clip_pool", "news_real_pool", "other_general_pool", "other_lang_pool",
     "clip_quota", "real_quota", "clip_selected_count", "real_selected_count",
     "remaining_slots", "selected_general", "selected_language", "target_language",
     "selected_clips", "clip_counter"}

\* the value of a name once the other call runs
Resumed(name, current) == IF name \in CallLocals THEN suspended[name] ELSE current

InitTwoCalls ==
    /\ fs = TwoCallFS
    /\ \E running \in CallProfiles, waiting \in CallProfiles :
          /\ mother_tongue = running[1]
          /\ language_competence = running[2]
          /\ suspended = FreshLocals(waiting)
    /\ LocalsInit
    /\ pool_target = N_RANDOM_CLIPS
    /\ SessionInit
    /\ other_session = None
    /\ firebase_service = "missing"
    /\ sheets_configured = FALSE
    /\ StorageEmpty

\* the running call is suspended between two steps and the other call runs
Switch ==
    /\ suspended' = Locals
    /\ mother_tongue' = Resumed("mother_tongue", mother_tongue)
    /\ language_competence' = Resumed("language_competence", language_competence)
    /\ pc' = Resumed("pc", pc)
    /\ error' = Resumed("error", error)
    /\ all_files' = Resumed("all_files", all_files)
    /\ news_clip_pool' = Resumed("news_clip_pool", news_clip_pool)
    /\ news_real_pool' = Resumed("news_real_pool", news_real_pool)
    /\ other_general_pool' = Resumed("other_general_pool", other_general_pool)
    /\ other_lang_pool' = Resumed("other_lang_pool", other_lang_pool)
    /\ clip_quota' = Resumed("clip_quota", clip_quota)
    /\ real_quota' = Resumed("real_quota", real_quota)
    /\ clip_selected_count' = Resumed("clip_selected_count", clip_selected_count)
    /\ real_selected_count' = Resumed("real_selected_count", real_selected_count)
    /\ remaining_slots' = Resumed("remaining_slots", remaining_slots)
    /\ selected_general' = Resumed("selected_general", selected_general)
    /\ selected_language' = Resumed("selected_language", selected_language)
    /\ target_language' = Resumed("target_language", target_language)
    /\ selected_clips' = Resumed("selected_clips", selected_clips)
    /\ clip_counter' = Resumed("clip_counter", clip_counter)
    /\ UNCHANGED <<fs, pool_target, session_vars, storage_vars, handed, participants,
                   saves, other_session>>

NextTwoCalls ==
    \/ Next
    \/ Switch

SpecTwoCalls == InitTwoCalls /\ [][NextTwoCalls]_vars

\* the call raised nothing, and what it returned is a dict the call returns
\* when it runs alone
SoloResult(call) ==
    /\ call.pc # "raised"
    /\ call.pc = "done"
         => [error |-> "none", clips |-> call.selected_clips]
                \in get_participant_audio_clips(fs, call.mother_tongue,
                                                call.language_competence)

\* C13: allocations of different participants are independent under any
\* interleaving: each call returns an assignment it could return alone, and a
\* step of one call leaves the lists and the assignment of the other as they
\* were.
C13_Independent ==
    /\ [](SoloResult(Locals) /\ SoloResult(suspended))
    /\ [][\/ suspended' = suspended
          \/ suspended' = Locals /\ Locals' = suspended]_vars

\* C13 witness: a call for Tamil returned five clips while a call for hindi
\* was suspended inside its language top-up
C13_Witness ==
    /\ pc = "done"
    /\ Len(selected_clips) = 5
    /\ suspended.pc = "language_topup"
    /\ suspended.mother_tongue = "hindi"
    /\ Len(suspended.selected_general) = 3

(* ------------------------- the remaining claims ------------------------ *)

\* C21: a valid (non-sentinel) language_competence that matches no bucket
\* leaves the language contribution empty, even if mother_tongue matches a
\* populated bucket.
C21_NoFallbackToMotherTongue ==
    (pc = "done" /\ CompetenceValid /\ ~HasBucket(language_competence))
        => /\ selected_language = <<>>
           /\ \A i \in DOMAIN AssignedFiles : AssignedFiles[i].dir = AudioDir

\* C21 witness: competence Malayalam has no subfolder, mother tongue TAMIL has
\* a populated one, and the call returned general clips only
C21_Witness ==
    /\ pc = "done"
    /\ language_competence = "Malayalam"
    /\ mother_tongue = "TAMIL"
    /\ HasBucket("TAMIL")
    /\ selected_language = <<>>
    /\ selected_clips # <<>>

\* the payload is in the collection, in the spreadsheet or in the local file
Stored(payload) ==
    \/ payload \in Range(firestore)
    \/ payload \in Range(sheet)
    \/ data_file.exists /\ payload \in Range(data_file.content)

\* the same in the state a step leads to
StoredNext(payload) ==
    \/ payload \in Range(firestore')
    \/ payload \in Range(sheet')
    \/ data_file'.exists /\ payload \in Range(data_file'.content)

Last(seq) == seq[Len(seq)]

\* a write of the call was accepted by its backend
Accepted(save) == \E k \in DOMAIN save.attempts : save.attempts[k].ok

\* C22: survey_step becomes 'completed' only after the response has actually
\* been written to at least one backend; if no backend accepted the write, the
\* survey stays on the last clip.
C22_CompletedOnlyAfterWrite ==
    [][(handed' # handed)
         => /\ (survey_step' = "completed") <=> Accepted(Last(saves'))
            /\ (survey_step' = "completed") => StoredNext(Payload(Last(handed')))
            /\ (survey_step' # "completed")
                  => survey_step' = "clip_survey" /\ current_clip' = current_clip]_vars

\* where a write was accepted, the survey completes with the payload stored
CompletedWhenAccepted ==
    [][(handed' # handed /\ Accepted(Last(saves')))
         => survey_step' = "completed" /\ StoredNext(Payload(Last(handed')))]_vars

\* the fallback as stated: no exception, the file write is attempted and,
\* where the disk takes it, the file holds the session's list with the payload
LocalFallback ==
    LET save == Last(saves')
        payload == Payload(Last(handed'))
    IN /\ save.result = "True"
       /\ survey_step' = "completed"
       /\ responses' = Append(responses, payload)
       /\ Len(save.attempts) = 1
       /\ save.attempts[1].backend = "file"
       /\ save.attempts[1].ok
             => data_file' = [exists |-> TRUE, content |-> responses']

\* C23: with the Firebase service missing or unavailable and the spreadsheet
\* not configured, save_response raises no exception, writes the session's
\* response list with the new payload to the local file, and returns True.
C23_LocalFallback ==
    [][(/\ handed' # handed
        /\ firebase_service \in {"missing", "unavailable"}
        /\ ~sheets_configured) => LocalFallback]_vars

\* the same with the service constructed but unavailable
LocalFallbackWhenUnavailable ==
    [][(/\ handed' # handed
        /\ firebase_service = "unavailable"
        /\ ~sheets_configured) => LocalFallback]_vars

\* a backend gained exactly the payload, or was left as it was
Gained(before, after, payload, accepted) ==
    after = IF accepted THEN Append(before, payload) ELSE before

AcceptedBy(save, backend) ==
    \E k \in DOMAIN save.attempts : save.attempts[k].backend = backend /\ save.attempts[k].ok

\* C24: the spreadsheet is attempted only if the Firestore write did not
\* succeed, the local file only if no earlier write succeeded, so one call
\* stores the payload in at most one backend; and on every path the payload is
\* appended to the session's response list exactly once.
C24_OrderedBackends ==
    [][(handed' # handed)
         => LET save == Last(saves')
                attempts == save.attempts
                payload == Payload(Last(handed'))
            IN /\ responses' = Append(responses, payload)
               /\ \A k \in DOMAIN attempts : k < Len(attempts) => ~attempts[k].ok
               /\ \A k \in DOMAIN attempts :
                     /\ attempts[k].backend = "sheet"
                           => (firebase_service = "available"
                                 => \E j \in 1..(k - 1) : attempts[j].backend = "firestore")
                     /\ attempts[k].backend = "file" => k = Len(attempts)
               /\ Gained(firestore, firestore', payload, AcceptedBy(save, "firestore"))
               /\ Gained(sheet, sheet', payload, AcceptedBy(save, "sheet"))
               /\ data_file' = IF AcceptedBy(save, "file")
                               THEN [exists |-> TRUE, content |-> responses']
                               ELSE data_file]_vars

\* C24 witness: a call went through Firestore, the spreadsheet and Firestore
\* again, all failing, and wrote the local file
C24_Witness ==
    /\ saves # <<>>
    /\ Last(saves).attempts = <<Attempt("firestore", FALSE), Attempt("sheet", FALSE),
                                Attempt("firestore", FALSE), Attempt("file", TRUE)>>
    /\ data_file.exists
    /\ survey_step = "completed"

\* the text is empty once trimmed
Blank(text) == text \in {"", "  "}

\* C26: the survey enters 'clip_survey' only when the submitted mother tongue
\* is non-empty after trimming, the competence is not 'Select a language' and
\* the allocation returned at least one clip; otherwise survey_step,
\* current_clip, current_responses and participant_audio_clips are unchanged.
C26_FormValidation ==
    [][/\ (survey_step # "clip_survey" /\ survey_step' = "clip_survey")
            => /\ survey_step = "participant_info"
               /\ ~Blank(DictGet(current_responses', "mother_tongue"))
               /\ DictGet(current_responses', "language_competence") # "Select a language"
               /\ participant_audio_clips' # <<>>
               /\ [error |-> "none", clips |-> participant_audio_clips']
                     \in get_participant_audio_clips(
                             fs, DictGet(current_responses', "mother_tongue"),
                             DictGet(current_responses', "language_competence"))
       /\ (survey_step = "participant_info" /\ survey_step' # "clip_survey")
            => UNCHANGED <<survey_step, current_clip, current_responses,
                           participant_audio_clips>>]_vars

\* C26 witness: with one file, in Tamil, the survey started for Tamil (the
\* same form with Hindi gets no clip and is refused)
C26_Witness ==
    /\ survey_step = "clip_survey"
    /\ fs.root = {}
    /\ Len(participant_audio_clips) = 1
    /\ DictGet(current_responses, "mother_tongue") = "Tamil"
    /\ DictGet(current_responses, "language_competence") = "None / Not applicable"

\* the records handed to save_response for the participant of the session
HandedFor(records, session) ==
    {i \in DOMAIN records :
        DictGet(records[i], "participant_id") = DictGet(session, "participant_id")}

\* the order of the survey steps
StepOrder ==
    {<<"participant_info", "clip_survey">>, <<"clip_survey", "completed">>,
     <<"completed", "participant_info">>}

\* the survey reaches 'completed' from the last clip, every clip saved, with
\* one call of save_response for the participant
CompletedFromLastClip ==
    /\ current_clip = Len(participant_audio_clips) - 1
    /\ saved_indices' = 0 .. (Len(participant_audio_clips) - 1)
    /\ Cardinality(HandedFor(handed', current_responses')) = 1

\* C27: survey_step moves only participant_info -> clip_survey -> completed
\* -> participant_info, and 'completed' is entered only after a successful
\* save at every clip index in order, with save_response called exactly once.
C27_StepOrder ==
    [][/\ (survey_step' # survey_step) => <<survey_step, survey_step'>> \in StepOrder
       /\ (survey_step' # survey_step /\ survey_step' = "completed")
            => CompletedFromLastClip]_vars

\* with the Firestore service constructed, save_response returns at its first
\* call and the statement of C27 holds
StepOrderWhenConstructed ==
    [][/\ (survey_step' # survey_step) => <<survey_step, survey_step'>> \in StepOrder
       /\ (survey_step' # survey_step /\ survey_step' = "completed"
              /\ firebase_service # "missing")
            => CompletedFromLastClip]_vars

\* C28: on the clip page the assignment is non-empty and
\* 0 <= current_clip < the number of assigned clips.
C28_IndexInRange ==
    survey_step = "clip_survey"
        => /\ participant_audio_clips # <<>>
           /\ current_clip >= 0
           /\ current_clip < Len(participant_audio_clips)

\* C28 witness: the last of three clips was saved, save_response raised and the
\* page is still the clip page at the last index
C28_Witness ==
    /\ survey_step = "clip_survey"
    /\ Len(participant_audio_clips) = 3
    /\ current_clip = 2
    /\ 2 \in saved_indices

\* C29: 'Take Another Survey' sets survey_step to 'participant_info',
\* current_clip to 0, empties current_responses and the assignment, and
\* leaves responses as it is.
C29_TakeAnotherSurveyResets ==
    [][(survey_step = "completed" /\ survey_step' # "completed")
          => /\ survey_step' = "participant_info"
             /\ current_clip' = 0
             /\ current_responses' = <<>>
             /\ participant_audio_clips' = <<>>
             /\ responses' = responses]_vars

\* C29 witness: back on the form after a completed survey of three clips, the
\* list of the session still holding its record
C29_Witness ==
    /\ survey_step = "participant_info"
    /\ current_clip = 0
    /\ current_responses = <<>>
    /\ participant_audio_clips = <<>>
    /\ responses # <<>>
    /\ handed # <<>>
    /\ Len(Keys(Last(handed))) > 5

\* ------------------------------------------------------------------------
\* Two browser sessions on one deployment.  Streamlit keeps one session state
\* per browser session and runs the script once per interaction; the storage
\* is shared.  The variables of the session block hold the session whose
\* script runs next and other_session holds the other one.
\* ------------------------------------------------------------------------

\* the session state of the running session
Session ==
    [survey_step |-> survey_step,
     current_clip |-> current_clip,
     current_responses |-> current_responses,
     participant_audio_clips |-> participant_audio_clips,
     responses |-> responses,
     saved_indices |-> saved_indices]

\* the session state created on the first run, load_responses finding nothing
FreshSession ==
    [survey_step |-> "participant_info",
     current_clip |-> 0,
     current_responses |-> <<>>,
     participant_audio_clips |-> <<>>,
     responses |-> <<>>,
     saved_indices |-> {}]

\* both sessions are open and nothing is stored yet
InitTwoSessions ==
    /\ fs \in SurveyFileSystems
    /\ firebase_service \in {"unavailable", "available"}
    /\ sheets_configured = FALSE
    /\ StorageEmpty
    /\ SessionInit
    /\ other_session = FreshSession
    /\ mother_tongue = None
    /\ language_competence = None
    /\ LocalsInit
    /\ pool_target = N_RANDOM_CLIPS
    /\ suspended = None

\* the next interaction comes from the other browser session
SwitchSession ==
    /\ other_session' = Session
    /\ survey_step' = other_session.survey_step
    /\ current_clip' = other_session.current_clip
    /\ current_responses' = other_session.current_responses
    /\ participant_audio_clips' = other_session.participant_audio_clips
    /\ responses' = other_session.responses
    /\ saved_indices' = other_session.saved_indices
    /\ UNCHANGED <<fs, call_vars, pool_target, suspended, storage_vars, handed,
                   participants, saves>>

NextTwoSessions ==
    \/ NextSurvey
    \/ SwitchSession

SpecTwoSessions == InitTwoSessions /\ [][NextTwoSessions]_vars

\* only the local file can take a response, and every write of it succeeded
LocalBackendOnly ==
    /\ firebase_service = "unavailable"
    /\ ~sheets_configured
    /\ \A i \in DOMAIN saves : \A k \in DOMAIN saves[i].attempts : saves[i].attempts[k].ok

\* every record handed to save_response is in the local data file
AllInDataFile ==
    /\ data_file.exists
    /\ \A i \in DOMAIN handed : Payload(handed[i]) \in Range(data_file.content)

\* C25: with the local-file backend, when two sessions that were both open
\* before either finished have both completed their survey, the local data
\* file contains the responses of both.
C25_NoLostResponse ==
    (/\ LocalBackendOnly
     /\ survey_step = "completed"
     /\ other_session.survey_step = "completed")
        => AllInDataFile

\* one session completing its surveys one after the other keeps them all
\* (stated for the survey of one session)
OneSessionKeepsAll ==
    (LocalBackendOnly /\ survey_step = "completed") => AllInDataFile

====
